---- MODULE Spec2Model ----
(***************************************************************************)
(* Model of src/src/api/todo-api.ts: the in-memory TodoApi (a store of     *)
(* todo lists behind promise-returning operations whose work happens in a  *)
(* setTimeout callback) and the FakeSocket that fans every mutation out to *)
(* its listeners.                                                          *)
(*                                                                         *)
(* One action arms an operation's timer (the call), one action per         *)
(* operation runs its timer callback as a whole (coin flip, index check,   *)
(* mutation, dispatch, settling the promise); the pending timers expire in *)
(* any order.  budget bounds the calls the callers make; last, notified,   *)
(* fulfilled, since, inbox and mirror are observations of what the program *)
(* did.  The program reads none of these.                                  *)
(***************************************************************************)
EXTENDS Integers, Sequences, FiniteSets, TLC

\* ------------------------------------------------------------------ bounds

\* Calls the callers make over a run.
MaxCalls == 3
\* Timers pending at once.
MaxPending == 2
\* Entries of FakeSocket.clients.
MaxClients == 2
\* Items of the longest list the one-call specification starts from.
MaxItems == 3
\* The largest latency drawn, in units of 100 ms (the code draws 0 .. 9).
MaxLatency == 2
\* The clock stops here.
MaxTime == 3
\* The largest period passed to launch, in seconds.
MaxPeriod == 6

\* ------------------------------------------------------------------ values

Min(a, b) == IF a < b THEN a ELSE b

Max(a, b) == IF a > b THEN a ELSE b

\* type Todo = {description, done}
todo(description, done) == [description |-> description, done |-> done]

\* The items callers pass to addTodo.
Added == { todo("A", FALSE) }

\* The values callers pass to editTodo.
Edited == { todo("B", TRUE) }

\* The value an unused argument slot of a call record carries.
NoTodo == todo("", FALSE)

\* An empty slot of a JavaScript array (created by assigning past its end).
Hole == todo("<empty>", FALSE)

\* The element undefined of a JavaScript array: a slot that is filled, with
\* the value undefined.
Undefined == todo("<undefined>", FALSE)

\* The object {} with no property, which {...undefined} evaluates to.
EmptyObject == todo("<{}>", FALSE)

\* List names passed to createList.
Names == {"work"}

\* The indices callers pass: a negative one, and ones that are inside or past
\* the end according to the store when the callback runs.
ListIndexes == {-1, 0}

ItemIndexes == {-1, 0}

DestIndexes == {0, 1}

\* Math.random(), in hundredths: a value of [0, 1).
RandomDraws == {49, 50, 99}

\* successRate, in hundredths: 1 as the constructor sets it, or lowered there.
SuccessRates == {50, 100}

\* The listeners that exist.  handleMessage of L1 returns, that of L2 raises.
Listeners == {"L1", "L2"}

\* SocketClient.handleMessage raises for these listeners.
RaisingListeners == {"L2"}

\* The listeners whose handleMessage returns; what they are handed is logged.
Returning == Listeners \ RaisingListeners

\* Listeners whose handleMessage calls fakeSocket.removeListener(L1) and returns.
Removing == {"L3"}

\* Listeners whose handleMessage calls fakeSocket.addListener(L1) and returns.
Adding == {"L4"}

\* The listeners of the runs that exercise the socket alone.
Handlers == {"L1", "L2", "L3", "L4"}

Mutating == {"createList", "deleteList", "addTodo", "removeTodo", "moveTodo", "editTodo"}

Indexed == {"deleteList", "addTodo", "removeTodo", "moveTodo", "editTodo"}

\* ------------------------------------------------------------------ arrays

\* Array.prototype.splice(start, deleteCount, ...ins): the array after, and
\* the elements removed.  A negative start counts from the end; both ends
\* are clamped.
splice(arr, start, deleteCount, ins) ==
    LET len == Len(arr)
        actualStart == IF start < 0 THEN Max(len + start, 0) ELSE Min(start, len)
        actualDelete == Min(Max(deleteCount, 0), len - actualStart)
    IN  [ array   |-> SubSeq(arr, 1, actualStart) \o ins
                        \o SubSeq(arr, actualStart + actualDelete + 1, len),
          removed |-> SubSeq(arr, actualStart + 1, actualStart + actualDelete) ]

\* arr[i] = v.  Inside the array it replaces; at or past the end it grows the
\* array, leaving holes between; a negative i sets a property that is no
\* element, so the elements stay as they are.
assignAt(arr, i, v) ==
    IF i < 0 THEN arr
    ELSE IF i < Len(arr) THEN [arr EXCEPT ![i + 1] = v]
    ELSE arr \o [k \in 1 .. (i - Len(arr)) |-> Hole] \o <<v>>

\* ...arr in an argument list: the elements of the array by index, so that
\* an empty slot is read as undefined.
spread(arr) == [k \in 1 .. Len(arr) |-> IF arr[k] = Hole THEN Undefined ELSE arr[k]]

\* {...todo}: a new object with the properties of todo; undefined has none.
copyTodo(t) ==
    IF t = Undefined THEN EmptyObject
    ELSE [description |-> t.description, done |-> t.done]

\* this.todos.map(l => ({name: l.name, items: l.items.map(t => ({...t}))}));
\* map keeps the holes of an array and calls the function on every element,
\* undefined included.
copyLists(ls) ==
    [i \in 1 .. Len(ls) |->
        [ name  |-> ls[i].name,
          items |-> [k \in 1 .. Len(ls[i].items) |->
                        IF ls[i].items[k] = Hole THEN Hole
                        ELSE copyTodo(ls[i].items[k])] ]]

\* ------------------------------------------------------------------ FakeSocket

\* One listener's share of forEach: the message it is handed.
stamp(seq, message) ==
    [sequenceId |-> seq, type |-> message.type, message |-> message.message]

\* FakeSocket.dispatchMessage(message) over the clients cl with the counter at
\* seq.  forEach hands the stamped message to each client in array order; a
\* handleMessage that raises ends the loop and the call (nothing catches it).
\* The counter is read for every message and written nowhere.
dispatchMessage(cl, seq, message) ==
    LET raisers == { i \in 1 .. Len(cl) : cl[i] \in RaisingListeners }
        stop == IF raisers = {} THEN Len(cl)
                ELSE CHOOSE i \in raisers : \A j \in raisers : i <= j
    IN  [ delivered  |-> [i \in 1 .. stop |-> [to |-> cl[i], msg |-> stamp(seq, message)]],
          threw      |-> raisers # {},
          sequenceId |-> seq ]

\* ------------------------------------------------------------------ TodoApi

\* isSuccess(successRate): Math.random() < successRate, r the draw.
isSuccess(r, rate) == r < rate

\* buildErrorResponse(code, description)
buildErrorResponse(code, description) ==
    [error |-> [code |-> code, description |-> description]]

\* this.todos[listIndex] is an object (not undefined).
hasList(ts, listIndex) == listIndex >= 0 /\ listIndex < Len(ts)

\* The list at a JavaScript index.
listAt(ts, listIndex) == ts[listIndex + 1]

\* this.todos with the items of the list at listIndex replaced.
withItems(ts, listIndex, items) == [ts EXCEPT ![listIndex + 1].items = items]

\* What a callback hands on when it has not resolved.
NoResponse == "none"

\* What one run of a timer callback did: the store and the counter it leaves,
\* the messages handed to listeners, the value it resolved with, and its
\* steps in order: "mutate" (the statement that changes the store ran),
\* "dispatch" (dispatchMessage was called), "resolve", "reject400",
\* "reject500" (the promise's functions were called), "catch" (the try block
\* was left by an exception), "uncaught" (an exception left the callback).
ran(ts, seq, delivered, response, events) ==
    [todos |-> ts, sequenceId |-> seq, delivered |-> delivered,
     response |-> response, events |-> events]

\* A slip in the else branch: it resolves where it should reject.
coinFailedResolves(ts, seq) == ran(ts, seq, <<>>, TRUE, <<"resolve">>)

\* The else branch of every callback: reject(buildErrorResponse(500, ...)).
coinFailed(ts, seq) == ran(ts, seq, <<>>, NoResponse, <<"reject500">>)

\* How a callback ends after its dispatchMessage call, inside try/catch.
afterDispatch(d) == IF d.threw THEN <<"catch", "reject500">> ELSE <<"resolve">>

\* The callback of getTodoLists.
getTodoListsRun(ts, cl, seq, coin) ==
    IF coin THEN ran(ts, seq, <<>>, copyLists(ts), <<"resolve">>)
    ELSE coinFailed(ts, seq)

\* A slip in createList: the list is pushed and the promise resolved, and
\* the listeners are not told.
createListRunSilent(ts, cl, seq, name, coin) ==
    IF ~coin THEN coinFailed(ts, seq)
    ELSE
    LET pushed == Append(ts, [name |-> name, items |-> <<>>])
    IN  ran(pushed, seq, <<>>, Len(pushed) - 1, <<"mutate", "resolve">>)

\* A slip in createList: it resolves with push's result, the new length.
createListRunLength(ts, cl, seq, name, coin) ==
    IF ~coin THEN coinFailed(ts, seq)
    ELSE
    LET pushed == Append(ts, [name |-> name, items |-> <<>>])
        d == dispatchMessage(cl, seq,
                [type |-> "createList",
                 message |-> [name |-> name, items |-> <<>>]])
    IN  ran(pushed, d.sequenceId, d.delivered, Len(pushed),
            <<"mutate", "dispatch">>
                \o (IF d.threw THEN <<"uncaught">> ELSE <<"resolve">>))

\* The callback of createList(name): no try/catch around the dispatch.
createListRun(ts, cl, seq, name, coin) ==
    IF ~coin THEN coinFailed(ts, seq)
    ELSE
    LET pushed == Append(ts, [name |-> name, items |-> <<>>])
        length == Len(pushed)
        d == dispatchMessage(cl, seq,
                [type |-> "createList",
                 message |-> [name |-> pushed[Len(pushed)].name,
                              items |-> pushed[Len(pushed)].items]])
    IN  ran(pushed, d.sequenceId, d.delivered, length - 1,
            <<"mutate", "dispatch">>
                \o (IF d.threw THEN <<"uncaught">> ELSE <<"resolve">>))

\* The callback of deleteList(listIndex).  reject does not leave the block.
deleteListRun(ts, cl, seq, listIndex, coin) ==
    IF ~coin THEN coinFailed(ts, seq)
    ELSE
    LET bad == listIndex < 0 \/ listIndex >= Len(ts)
        after == splice(ts, listIndex, 1, <<>>).array
        d == dispatchMessage(cl, seq,
                [type |-> "deleteList", message |-> [index |-> listIndex]])
    IN  ran(after, d.sequenceId, d.delivered, TRUE,
            (IF bad THEN <<"reject400">> ELSE <<>>)
                \o <<"mutate", "dispatch">> \o afterDispatch(d))

\* The callback of addTodo(listIndex, item).  With no list at listIndex,
\* this.todos[listIndex].items raises a TypeError, which the catch takes.
addTodoRun(ts, cl, seq, listIndex, item, coin) ==
    IF ~coin THEN coinFailed(ts, seq)
    ELSE
    LET bad == listIndex < 0 \/ listIndex >= Len(ts)
        pre == IF bad THEN <<"reject400">> ELSE <<>>
    IN  IF ~hasList(ts, listIndex)
        THEN ran(ts, seq, <<>>, NoResponse, pre \o <<"catch", "reject500">>)
        ELSE
        LET after == withItems(ts, listIndex,
                        Append(listAt(ts, listIndex).items, copyTodo(item)))
            d == dispatchMessage(cl, seq,
                    [type |-> "addToDo",
                     message |-> [listIndex |-> listIndex, item |-> copyTodo(item)]])
        IN  ran(after, d.sequenceId, d.delivered, TRUE,
                pre \o <<"mutate", "dispatch">> \o afterDispatch(d))

\* The callback of removeTodo(listIndex, todoIndex).
removeTodoRun(ts, cl, seq, listIndex, todoIndex, coin) ==
    IF ~coin THEN coinFailed(ts, seq)
    ELSE
    LET bad == \/ listIndex < 0
               \/ listIndex >= Len(ts)
               \/ todoIndex < 0
               \/ todoIndex >= Len(listAt(ts, listIndex).items)
        pre == IF bad THEN <<"reject400">> ELSE <<>>
    IN  IF ~hasList(ts, listIndex)
        THEN ran(ts, seq, <<>>, NoResponse, pre \o <<"catch", "reject500">>)
        ELSE
        LET after == withItems(ts, listIndex,
                        splice(listAt(ts, listIndex).items, todoIndex, 1, <<>>).array)
            d == dispatchMessage(cl, seq,
                    [type |-> "removeTodo",
                     message |-> [listIndex |-> listIndex, itemIndex |-> todoIndex]])
        IN  ran(after, d.sequenceId, d.delivered, TRUE,
                pre \o <<"mutate", "dispatch">> \o afterDispatch(d))

\* const realDest = destIndex < sourceIndex ? destIndex : destIndex - 1
realDest(sourceIndex, destIndex) ==
    IF destIndex < sourceIndex THEN destIndex ELSE destIndex - 1

\* The two splices of moveTodo on one list's items: todo is the array of
\* what the first removed, and the second inserts ...todo.
moveItems(items, sourceIndex, destIndex) ==
    LET cut == splice(items, sourceIndex, 1, <<>>)
    IN  splice(cut.array, realDest(sourceIndex, destIndex), 0, spread(cut.removed)).array

\* The callback of moveTodo(listIndex, sourceIndex, destIndex).
moveTodoRun(ts, cl, seq, listIndex, sourceIndex, destIndex, coin) ==
    IF ~coin THEN coinFailed(ts, seq)
    ELSE
    LET bad == \/ listIndex < 0
               \/ listIndex >= Len(ts)
               \/ sourceIndex < 0
               \/ sourceIndex >= Len(listAt(ts, listIndex).items)
        pre == IF bad THEN <<"reject400">> ELSE <<>>
    IN  IF ~hasList(ts, listIndex)
        THEN ran(ts, seq, <<>>, NoResponse, pre \o <<"catch", "reject500">>)
        ELSE
        LET after == withItems(ts, listIndex,
                        moveItems(listAt(ts, listIndex).items, sourceIndex, destIndex))
            d == dispatchMessage(cl, seq,
                    [type |-> "moveTodo",
                     message |-> [listIndex |-> listIndex, sourceIndex |-> sourceIndex,
                                  destIndex |-> destIndex]])
        IN  ran(after, d.sequenceId, d.delivered, TRUE,
                pre \o <<"mutate", "dispatch">> \o afterDispatch(d))

\* The callback of editTodo(listIndex, itemIndex, newValue).
editTodoRun(ts, cl, seq, listIndex, itemIndex, newValue, coin) ==
    IF ~coin THEN coinFailed(ts, seq)
    ELSE
    LET bad == \/ listIndex < 0
               \/ listIndex >= Len(ts)
               \/ itemIndex < 0
               \/ itemIndex >= Len(listAt(ts, listIndex).items)
        pre == IF bad THEN <<"reject400">> ELSE <<>>
    IN  IF ~hasList(ts, listIndex)
        THEN ran(ts, seq, <<>>, NoResponse, pre \o <<"catch", "reject500">>)
        ELSE
        LET after == withItems(ts, listIndex,
                        assignAt(listAt(ts, listIndex).items, itemIndex, copyTodo(newValue)))
            d == dispatchMessage(cl, seq,
                    [type |-> "editTodo",
                     message |-> [listIndex |-> listIndex, itemIndex |-> itemIndex,
                                  newValue |-> newValue]])
        IN  ran(after, d.sequenceId, d.delivered, TRUE,
                pre \o <<"mutate", "dispatch">> \o afterDispatch(d))

\* A promise keeps the first call of resolve or reject and ignores the rest:
\* what the caller gets from a callback's steps ("pending": nothing).
RECURSIVE settled(_)
settled(events) ==
    IF events = <<>> THEN "pending"
    ELSE IF Head(events) \in {"resolve", "reject400", "reject500"} THEN Head(events)
    ELSE settled(Tail(events))

\* The envelope the caller receives.
envelope(outcome, response) ==
    CASE outcome = "resolve"   -> [response |-> response]
      [] outcome = "reject400" -> buildErrorResponse(400, "index out of bound")
      [] outcome = "reject500" -> buildErrorResponse(500, "internal error")
      [] OTHER                 -> [pending |-> TRUE]

\* ------------------------------------------------------------------ state

VARIABLES
    successRate,  \* TodoApi.successRate, in hundredths
    todos,        \* TodoApi.todos: a sequence of [name, items]
    clients,      \* FakeSocket.clients
    sequenceId,   \* FakeSocket.sequenceId
    pending,      \* the armed timers, in call order
    budget,       \* the calls the callers still make
    last,         \* the callback that ran last: its call, the store and the
                  \* count of dispatches before it, what it did
    notified,     \* dispatchMessage calls so far
    fulfilled,    \* mutating calls resolved with a success envelope so far
    since,        \* per returning listener subscribed: notified when it last subscribed
    inbox,        \* per returning listener subscribed: the sequenceIds handed to it since
    mirror,       \* the store listener L1 rebuilds from the messages it is handed
    subscribed,   \* the listeners whose latest addListener/removeListener was addListener
    caller,       \* what a caller holds of a getTodoLists response it wrote into
    now,          \* the clock, in units of 100 ms
    timers,       \* the armed timers of the calls followed statement by statement
    stack,        \* their callbacks that have begun and not ended
    fired,        \* their timers that fired, in that order
    executor,     \* the RandomActionExecutor: running, minPeriod, maxPeriod
    launched      \* its launch call made last

\* The event loop as the calls followed statement by statement see it.
loop == <<now, timers, stack, fired>>

\* The RandomActionExecutor.
exec == <<executor, launched>>

\* What no operation of TodoApi or FakeSocket touches.
apart == <<caller, loop, exec>>

vars == <<successRate, todos, clients, sequenceId, pending, budget, last,
          notified, fulfilled, since, inbox, mirror, subscribed, apart>>

\* No caller has written into a response.
NoCaller == [received |-> <<>>, held |-> <<>>, wrote |-> 0, ahead |-> 0]

\* new RandomActionExecutor(): not running, periods 1 and 5; run() has armed
\* no timer and no action has been invoked.
constructed == [running |-> FALSE, minPeriod |-> 1, maxPeriod |-> 5,
                timer |-> FALSE, invoked |-> 0]

\* No launch call has been made.
NoLaunch == [minPeriod |-> 0, maxPeriod |-> 0, threw |-> FALSE, before |-> constructed]

\* apart before anything has happened.
Apart ==
    /\ caller = NoCaller
    /\ now = 0 /\ timers = <<>> /\ stack = <<>> /\ fired = <<>>
    /\ executor = constructed
    /\ launched = NoLaunch

\* A call as its timer holds it; the slots an operation has no use for are 0.
call(op, name, listIndex, itemIndex, destIndex, item) ==
    [op |-> op, name |-> name, listIndex |-> listIndex, itemIndex |-> itemIndex,
     destIndex |-> destIndex, item |-> item]

NoCall == call("none", "", 0, 0, 0, NoTodo)

\* ------------------------------------------------------------------ the mirror

\* A listener's replay of one message on its copy of the store, by the
\* effect each kind has: createList appends the list, deleteList removes the
\* list at index, addToDo appends the item, removeTodo removes the item at
\* itemIndex, moveTodo removes the item at sourceIndex and inserts it at
\* destIndex - 1 when destIndex > sourceIndex and at destIndex otherwise,
\* editTodo replaces the item at itemIndex.  A message naming a position that
\* does not exist changes nothing.
replay(m, msg) ==
    LET p == msg.message
        inList(i) == i >= 0 /\ i < Len(m)
        inItems(i, k) == inList(i) /\ k >= 0 /\ k < Len(m[i + 1].items)
        drop(s, k) == SubSeq(s, 1, k) \o SubSeq(s, k + 2, Len(s))
        put(s, k, v) == SubSeq(s, 1, k) \o <<v>> \o SubSeq(s, k + 1, Len(s))
    IN  CASE msg.type = "createList" ->
                Append(m, [name |-> p.name, items |-> p.items])
          [] msg.type = "deleteList" ->
                IF inList(p.index) THEN drop(m, p.index) ELSE m
          [] msg.type = "addToDo" ->
                IF inList(p.listIndex)
                THEN [m EXCEPT ![p.listIndex + 1].items = Append(@, p.item)]
                ELSE m
          [] msg.type = "removeTodo" ->
                IF inItems(p.listIndex, p.itemIndex)
                THEN [m EXCEPT ![p.listIndex + 1].items = drop(@, p.itemIndex)]
                ELSE m
          [] msg.type = "moveTodo" ->
                IF inItems(p.listIndex, p.sourceIndex)
                THEN LET items == m[p.listIndex + 1].items
                         rest == drop(items, p.sourceIndex)
                         at == IF p.destIndex > p.sourceIndex
                               THEN p.destIndex - 1 ELSE p.destIndex
                     IN  IF at >= 0 /\ at <= Len(rest)
                         THEN [m EXCEPT ![p.listIndex + 1].items =
                                    put(rest, at, items[p.sourceIndex + 1])]
                         ELSE m
                ELSE m
          [] msg.type = "editTodo" ->
                IF inItems(p.listIndex, p.itemIndex)
                THEN [m EXCEPT ![p.listIndex + 1].items[p.itemIndex + 1] = p.newValue]
                ELSE m
          [] OTHER -> m

\* The messages of one dispatch that went to listener l, in order.
handedTo(delivered, l) ==
    LET F[i \in 0 .. Len(delivered)] ==
            IF i = 0 THEN <<>>
            ELSE IF delivered[i].to = l THEN Append(F[i - 1], delivered[i].msg)
            ELSE F[i - 1]
    IN  F[Len(delivered)]

\* The mirror after replaying msgs in order.
RECURSIVE replayAll(_, _)
replayAll(m, msgs) ==
    IF msgs = <<>> THEN m ELSE replayAll(replay(m, Head(msgs)), Tail(msgs))

\* How many of the steps are s.
count(events, s) == Cardinality({ i \in 1 .. Len(events) : events[i] = s })

\* ------------------------------------------------------------------ Init

\* last before any callback has run.
NoRun ==
    [call |-> NoCall, coin |-> TRUE, before |-> <<>>, notified |-> 0, events |-> <<>>,
     outcome |-> "pending", response |-> NoResponse, delivered |-> <<>>]

\* The module's two singletons as their constructors leave them; successRate
\* is the constructor's 1 or the lower rate its comment invites.
Init ==
    /\ successRate \in SuccessRates
    /\ todos = <<>>
    /\ clients = <<>>
    /\ sequenceId = 0
    /\ pending = <<>>
    /\ budget = MaxCalls
    /\ last = NoRun
    /\ notified = 0
    /\ fulfilled = 0
    /\ since = [l \in Returning |-> 0]
    /\ inbox = [l \in Returning |-> <<>>]
    /\ mirror = <<>>
    /\ subscribed = {}
    /\ Apart

\* ------------------------------------------------------------------ FakeSocket actions

\* FakeSocket.addListener(client): push, with no check for a client already there.
addListener(l) ==
    /\ Len(clients) < MaxClients
    /\ clients' = Append(clients, l)
    /\ since' = [k \in Returning |-> IF k = l THEN notified ELSE since[k]]
    /\ inbox' = [k \in Returning |-> IF k = l THEN <<>> ELSE inbox[k]]
    /\ subscribed' = subscribed \cup {l}
    /\ UNCHANGED <<successRate, todos, sequenceId, pending, budget, last,
                   notified, fulfilled, mirror, apart>>

\* A slip in removeListener: the filter's result is dropped, so the client stays.
removeListenerKeeps(l) ==
    /\ clients' = clients
    /\ since' = [k \in Returning |-> IF k = l THEN 0 ELSE since[k]]
    /\ inbox' = [k \in Returning |-> IF k = l THEN <<>> ELSE inbox[k]]
    /\ subscribed' = subscribed \ {l}
    /\ UNCHANGED <<successRate, todos, sequenceId, pending, budget, last,
                   notified, fulfilled, mirror, apart>>

\* FakeSocket.removeListener(client): every entry equal to client goes.
removeListener(l) ==
    /\ clients' = SelectSeq(clients, LAMBDA c : c # l)
    /\ since' = [k \in Returning |-> IF k = l THEN 0 ELSE since[k]]
    /\ inbox' = [k \in Returning |-> IF k = l THEN <<>> ELSE inbox[k]]
    /\ subscribed' = subscribed \ {l}
    /\ UNCHANGED <<successRate, todos, sequenceId, pending, budget, last,
                   notified, fulfilled, mirror, apart>>

\* ------------------------------------------------------------------ calls

\* new Promise(... setTimeout(callback, Math.floor(Math.random() * 10) * 100)):
\* the call arms a timer and returns.  The latency is drawn afresh for every
\* call and callers call at any time, so the timers expire in any order: the
\* draw shows as the choice of the pending timer that fires next.
arm(c) ==
    /\ pending' = Append(pending, c)
    /\ budget' = budget - 1
    /\ UNCHANGED <<successRate, todos, clients, sequenceId, last,
                   notified, fulfilled, since, inbox, mirror, subscribed, apart>>

\* A caller has a call left to make and a timer is free.
open == budget > 0 /\ Len(pending) < MaxPending

getTodoLists ==
    /\ open
    /\ arm(call("getTodoLists", "", 0, 0, 0, NoTodo))

createList(name) ==
    /\ open
    /\ arm(call("createList", name, 0, 0, 0, NoTodo))

deleteList(listIndex) ==
    /\ open
    /\ arm(call("deleteList", "", listIndex, 0, 0, NoTodo))

addTodo(listIndex, item) ==
    /\ open
    /\ arm(call("addTodo", "", listIndex, 0, 0, item))

removeTodo(listIndex, todoIndex) ==
    /\ open
    /\ arm(call("removeTodo", "", listIndex, todoIndex, 0, NoTodo))

moveTodo(listIndex, sourceIndex, destIndex) ==
    /\ open
    /\ arm(call("moveTodo", "", listIndex, sourceIndex, destIndex, NoTodo))

editTodo(listIndex, itemIndex, newValue) ==
    /\ open
    /\ arm(call("editTodo", "", listIndex, itemIndex, 0, newValue))

\* ------------------------------------------------------------------ handlers

\* One handleMessage call of a dispatch: listener d.to is handed d.msg, which
\* its log keeps if it is a returning one, and then its handler does what it
\* does: nothing more, a raise, removeListener(L1) or addListener(L1).  s is
\* the socket with the listeners' logs, n the dispatchMessage calls made up to
\* and including this one.
handled(s, d, n) ==
    LET got == [s EXCEPT !.inbox =
                    [l \in Returning |->
                        IF l = d.to THEN Append(s.inbox[l], d.msg.sequenceId)
                        ELSE s.inbox[l]]]
    IN  IF d.to \in Removing
        THEN [ clients    |-> SelectSeq(got.clients, LAMBDA c : c # "L1"),
               subscribed |-> got.subscribed \ {"L1"},
               since      |-> [l \in Returning |-> IF l = "L1" THEN 0 ELSE got.since[l]],
               inbox      |-> [l \in Returning |-> IF l = "L1" THEN <<>> ELSE got.inbox[l]] ]
        ELSE IF d.to \in Adding
        THEN [ clients    |-> Append(got.clients, "L1"),
               subscribed |-> got.subscribed \cup {"L1"},
               since      |-> [l \in Returning |-> IF l = "L1" THEN n ELSE got.since[l]],
               inbox      |-> [l \in Returning |-> IF l = "L1" THEN <<>> ELSE got.inbox[l]] ]
        ELSE got

\* The handleMessage calls of one dispatch, in order.
RECURSIVE handledAll(_, _, _)
handledAll(s, delivered, n) ==
    IF delivered = <<>> THEN s
    ELSE handledAll(handled(s, Head(delivered), n), Tail(delivered), n)

\* ------------------------------------------------------------------ timers

\* The timer in slot i of pending expires.
due(i) == i \in 1 .. Len(pending)

\* What is kept of a callback: its call c, its coin flip, the store ts and the
\* count n of dispatches it started from, and of what it did (r) the steps,
\* the messages handed out, and what the promise made of the steps.
observed(c, coin, ts, n, r) ==
    [call |-> c, coin |-> coin, before |-> ts, notified |-> n, events |-> r.events,
     outcome |-> settled(r.events),
     response |-> IF settled(r.events) = "resolve" THEN r.response ELSE NoResponse,
     delivered |-> r.delivered]

\* The state a callback leaves, r being what it did on the coin flip coin.
finish(i, coin, r) ==
    LET c == pending[i]
        outcome == settled(r.events)
    IN  /\ todos' = r.todos
        /\ sequenceId' = r.sequenceId
        /\ pending' = SubSeq(pending, 1, i - 1) \o SubSeq(pending, i + 1, Len(pending))
        /\ last' = observed(c, coin, todos, notified, r)
        /\ notified' = notified + count(r.events, "dispatch")
        /\ fulfilled' = fulfilled
                + (IF c.op \in Mutating /\ outcome = "resolve" THEN 1 ELSE 0)
        /\ LET s == handledAll([clients |-> clients, subscribed |-> subscribed,
                                since |-> since, inbox |-> inbox],
                               r.delivered, notified + 1)
           IN  /\ clients' = s.clients
               /\ subscribed' = s.subscribed
               /\ since' = s.since
               /\ inbox' = s.inbox
        /\ mirror' = replayAll(mirror, handedTo(r.delivered, "L1"))
        /\ UNCHANGED <<successRate, budget, apart>>

getTodoListsCallback(i) ==
    /\ due(i) /\ pending[i].op = "getTodoLists"
    /\ \E rnd \in RandomDraws :
        finish(i, isSuccess(rnd, successRate),
               getTodoListsRun(todos, clients, sequenceId,
                                        isSuccess(rnd, successRate)))

createListCallback(i) ==
    /\ due(i) /\ pending[i].op = "createList"
    /\ \E rnd \in RandomDraws :
        finish(i, isSuccess(rnd, successRate),
               createListRun(todos, clients, sequenceId, pending[i].name,
                                      isSuccess(rnd, successRate)))

deleteListCallback(i) ==
    /\ due(i) /\ pending[i].op = "deleteList"
    /\ \E rnd \in RandomDraws :
        finish(i, isSuccess(rnd, successRate),
               deleteListRun(todos, clients, sequenceId, pending[i].listIndex,
                                      isSuccess(rnd, successRate)))

addTodoCallback(i) ==
    /\ due(i) /\ pending[i].op = "addTodo"
    /\ \E rnd \in RandomDraws :
        finish(i, isSuccess(rnd, successRate),
               addTodoRun(todos, clients, sequenceId, pending[i].listIndex,
                                   pending[i].item, isSuccess(rnd, successRate)))

removeTodoCallback(i) ==
    /\ due(i) /\ pending[i].op = "removeTodo"
    /\ \E rnd \in RandomDraws :
        finish(i, isSuccess(rnd, successRate),
               removeTodoRun(todos, clients, sequenceId, pending[i].listIndex,
                                      pending[i].itemIndex, isSuccess(rnd, successRate)))

moveTodoCallback(i) ==
    /\ due(i) /\ pending[i].op = "moveTodo"
    /\ \E rnd \in RandomDraws :
        finish(i, isSuccess(rnd, successRate),
               moveTodoRun(todos, clients, sequenceId, pending[i].listIndex,
                                    pending[i].itemIndex, pending[i].destIndex,
                                    isSuccess(rnd, successRate)))

editTodoCallback(i) ==
    /\ due(i) /\ pending[i].op = "editTodo"
    /\ \E rnd \in RandomDraws :
        finish(i, isSuccess(rnd, successRate),
               editTodoRun(todos, clients, sequenceId, pending[i].listIndex,
                                    pending[i].itemIndex, pending[i].item,
                                    isSuccess(rnd, successRate)))

\* ------------------------------------------------------------------ specification

Slots == 1 .. MaxPending

Next ==
    \/ \E l \in Listeners : addListener(l)
    \/ \E l \in Listeners : removeListener(l)
    \/ getTodoLists
    \/ \E name \in Names : createList(name)
    \/ \E listIndex \in ListIndexes : deleteList(listIndex)
    \/ \E listIndex \in ListIndexes, item \in Added : addTodo(listIndex, item)
    \/ \E listIndex \in ListIndexes, todoIndex \in ItemIndexes :
            removeTodo(listIndex, todoIndex)
    \/ \E listIndex \in ListIndexes, sourceIndex \in ItemIndexes, destIndex \in DestIndexes :
            moveTodo(listIndex, sourceIndex, destIndex)
    \/ \E listIndex \in ListIndexes, itemIndex \in ItemIndexes, newValue \in Edited :
            editTodo(listIndex, itemIndex, newValue)
    \/ \E i \in Slots : getTodoListsCallback(i)
    \/ \E i \in Slots : createListCallback(i)
    \/ \E i \in Slots : deleteListCallback(i)
    \/ \E i \in Slots : addTodoCallback(i)
    \/ \E i \in Slots : removeTodoCallback(i)
    \/ \E i \in Slots : moveTodoCallback(i)
    \/ \E i \in Slots : editTodoCallback(i)

Spec == Init /\ [][Next]_vars

\* ------------------------------------------------------------------ one call on a built store

\* Descriptions that tell the items of a list apart.
Letters == <<"A", "B", "C", "D", "E", "F">>

\* A list of n distinct items, as n addTodo calls leave it.
lettered(n) == [k \in 1 .. Min(n, Len(Letters)) |-> todo(Letters[k], FALSE)]

\* The store of one list "work" holding the first n lettered items.
built(n) == <<[name |-> "work", items |-> lettered(n)]>>

\* The indices the one call passes: from -1 to past the end of the longest list.
WideListIndexes == {-1, 0, 1}

WideItemIndexes == -1 .. MaxItems

WideDestIndexes == -1 .. (MaxItems + 1)

\* L1 subscribes, and then either nothing more has happened (n = -1) or
\* createList("work") and n addTodo(0, item) calls have, each resolved before
\* the next was made.  The callers have b calls left to make.
Built(b) ==
    \E n \in -1 .. MaxItems :
        LET r == IF n = 0
                 THEN createListRun(<<>>, <<"L1">>, 0, "work", TRUE)
                 ELSE addTodoRun(built(n - 1), <<"L1">>, 0, 0, lettered(n)[n], TRUE)
            c == IF n = 0
                 THEN call("createList", "work", 0, 0, 0, NoTodo)
                 ELSE call("addTodo", "", 0, 0, 0, lettered(n)[n])
        IN  /\ successRate \in SuccessRates
            /\ clients = <<"L1">>
            /\ sequenceId = 0
            /\ pending = <<>>
            /\ budget = b
            /\ since = [l \in Returning |-> 0]
            /\ subscribed = {"L1"}
            /\ Apart
            /\ fulfilled = n + 1
            /\ notified = n + 1
            /\ IF n = -1
               THEN /\ todos = <<>>
                    /\ last = NoRun
                    /\ inbox = [l \in Returning |-> <<>>]
                    /\ mirror = <<>>
               ELSE /\ todos = r.todos
                    /\ last = observed(c, TRUE, IF n = 0 THEN <<>> ELSE built(n - 1), n, r)
                    /\ inbox = [l \in Returning |-> [k \in 1 .. (n + 1) |-> r.sequenceId]]
                    /\ mirror = built(n)

\* One call on a built store.
InitOne == Built(1)

NextOne ==
    \/ \E l \in Listeners : addListener(l)
    \/ \E l \in Listeners : removeListener(l)
    \/ getTodoLists
    \/ \E name \in Names : createList(name)
    \/ \E listIndex \in WideListIndexes : deleteList(listIndex)
    \/ \E listIndex \in WideListIndexes, item \in Added : addTodo(listIndex, item)
    \/ \E listIndex \in WideListIndexes, todoIndex \in WideItemIndexes :
            removeTodo(listIndex, todoIndex)
    \/ \E listIndex \in WideListIndexes, sourceIndex \in WideItemIndexes,
          destIndex \in WideDestIndexes :
            moveTodo(listIndex, sourceIndex, destIndex)
    \/ \E listIndex \in WideListIndexes, itemIndex \in WideItemIndexes,
          newValue \in Edited :
            editTodo(listIndex, itemIndex, newValue)
    \/ \E i \in Slots : getTodoListsCallback(i)
    \/ \E i \in Slots : createListCallback(i)
    \/ \E i \in Slots : deleteListCallback(i)
    \/ \E i \in Slots : addTodoCallback(i)
    \/ \E i \in Slots : removeTodoCallback(i)
    \/ \E i \in Slots : moveTodoCallback(i)
    \/ \E i \in Slots : editTodoCallback(i)

SpecOne == InitOne /\ [][NextOne]_vars

\* ------------------------------------------------------------------ claims

\* The callback that ran last belongs to a call of op.
Ran(op) == last.call.op = op

\* The index check of the last callback's operation fails on the store ts:
\* the list index is outside ts, or, for the operations that take one, the
\* item index is outside that list.
InvalidIndex(c, ts) ==
    \/ c.listIndex < 0
    \/ c.listIndex >= Len(ts)
    \/ /\ c.op \in {"removeTodo", "moveTodo", "editTodo"}
       /\ \/ c.itemIndex < 0
          \/ c.itemIndex >= Len(ts[c.listIndex + 1].items)

\* The position of the first step s among the events (0: none).
first(events, s) ==
    IF \E i \in 1 .. Len(events) : events[i] = s
    THEN CHOOSE i \in 1 .. Len(events) :
            events[i] = s /\ \A j \in 1 .. (i - 1) : events[j] # s
    ELSE 0

\* C1: an indexed operation whose coin flip passes but whose list index or
\* item index is out of range when its callback runs leaves the store as it
\* was.
C1_InvalidIndexKeepsStore ==
    (last.call.op \in Indexed /\ last.coin /\ InvalidIndex(last.call, last.before))
        => todos = last.before

\* C2: a call reported as an error has dispatched nothing, and the number of
\* dispatchMessage calls equals the number of mutating calls resolved with a
\* success envelope.
C2_ErrorsNotifyNothing ==
    /\ last.outcome \in {"reject400", "reject500"} => count(last.events, "dispatch") = 0
    /\ notified = fulfilled

\* The listener occurs exactly once in clients.
SubscribedOnce(l) == Cardinality({ i \in 1 .. Len(clients) : clients[i] = l }) = 1

\* C3: the channel counter starts at 0 and grows by one per dispatchMessage
\* call, and a listener subscribed after K dispatches has been handed the
\* sequenceIds K, K+1, ... in that order, one per dispatch since (K = 0 for a
\* listener subscribed before all of them).
C3_SequenceIdsCountDispatches ==
    /\ sequenceId = notified
    /\ \A l \in Returning :
        SubscribedOnce(l)
            => inbox[l] = [k \in 1 .. (notified - since[l]) |-> since[l] + k - 1]

\* C4: the mirror of a listener subscribed before any operation, rebuilt from
\* the messages it is handed, equals the store after every dispatch.  Stated
\* for the case that leaves the replay no choice: L1 is the only listener, and
\* the last call named positions that exist (a destIndex in 0 .. length).
C4_MirrorEqualsStore ==
    LET c == last.call
    IN  (/\ clients = <<"L1">> /\ since["L1"] = 0
         /\ c.op \in Indexed
         /\ ~InvalidIndex(c, last.before)
         /\ c.op = "moveTodo"
                => c.destIndex \in 0 .. Len(last.before[c.listIndex + 1].items))
            => mirror = todos

\* C5: a mutating call resolved with a success envelope called
\* dispatchMessage exactly once, after the statement that changes the store
\* and before resolve.
C5_OneDispatchAfterMutation ==
    (last.call.op \in Mutating /\ last.outcome = "resolve")
        => /\ count(last.events, "dispatch") = 1
           /\ notified = last.notified + 1
           /\ first(last.events, "mutate") > 0
           /\ first(last.events, "mutate") < first(last.events, "dispatch")
           /\ first(last.events, "dispatch") < first(last.events, "resolve")

\* A successful editTodo that a listener was told about.
C5_Witness ==
    /\ Ran("editTodo") /\ last.outcome = "resolve"
    /\ todos # last.before
    /\ Len(last.delivered) = 1

\* Removing the item at position src (from 0) and inserting it at position at.
reinserted(items, src, at) ==
    LET rest == SubSeq(items, 1, src) \o SubSeq(items, src + 2, Len(items))
    IN  SubSeq(rest, 1, at) \o <<items[src + 1]>> \o SubSeq(rest, at + 1, Len(rest))

\* C6: a successful moveTodo with a valid sourceIndex and a destIndex in
\* 0 .. length leaves the list with the item removed from sourceIndex and
\* inserted at destIndex - 1 when destIndex > sourceIndex, at destIndex
\* otherwise.
C6_MoveReinsertsAtAdjustedDest ==
    LET c == last.call
        items == last.before[c.listIndex + 1].items
    IN  (/\ Ran("moveTodo") /\ last.outcome = "resolve"
         /\ ~InvalidIndex(c, last.before)
         /\ c.destIndex \in 0 .. Len(items))
            => todos[c.listIndex + 1].items =
                    reinserted(items, c.itemIndex,
                               IF c.destIndex > c.itemIndex
                               THEN c.destIndex - 1 ELSE c.destIndex)

\* C7: a call whose callback ran has delivered exactly one envelope to its
\* caller, and for an indexed operation whose index is out of range when the
\* callback runs with the coin flip passed, that envelope is the 400 one.
C7_OneOutcomeAnd400 ==
    /\ ~Ran("none") => last.outcome \in {"resolve", "reject400", "reject500"}
    /\ (last.call.op \in Indexed /\ last.coin /\ InvalidIndex(last.call, last.before))
            => envelope(last.outcome, last.response)
                    = buildErrorResponse(400, "index out of bound")

\* C8: when the coin flip fails the caller gets the 500 envelope, the store
\* is as it was and nothing was dispatched.
C8_CoinFailureChangesNothing ==
    (~Ran("none") /\ ~last.coin)
        => /\ envelope(last.outcome, last.response)
                    = buildErrorResponse(500, "internal error")
           /\ todos = last.before
           /\ notified = last.notified
           /\ last.delivered = <<>>

\* An editTodo with valid indices and a listener subscribed whose coin flip failed.
C8_Witness ==
    /\ Ran("editTodo") /\ ~last.coin
    /\ ~InvalidIndex(last.call, last.before)
    /\ clients # <<>>
    /\ last.outcome = "reject500"

\* C9: a call whose timer fired has settled its caller's promise, whatever
\* the listeners did.
C9_FiredCallSettles ==
    ~Ran("none") => last.outcome # "pending"

\* C10: a mutating call that passes the coin flip and its index check gets
\* the success envelope, and no call gets a failure envelope while its
\* mutation is in the store.
C10_ListenerErrorStaysWithListener ==
    /\ (/\ last.call.op \in Mutating /\ last.coin
        /\ (last.call.op \in Indexed => ~InvalidIndex(last.call, last.before)))
            => last.outcome = "resolve"
    /\ last.outcome \in {"reject400", "reject500"} => todos = last.before

\* ------------------------------------------------------------------ the socket and its listeners

\* Listeners of every kind come and go while createList and addTodo calls
\* commit: createList dispatches outside any try/catch, addTodo inside one.
NextSocket ==
    \/ \E l \in Handlers : addListener(l)
    \/ \E l \in Handlers : removeListener(l)
    \/ \E name \in Names : createList(name)
    \/ \E item \in Added : addTodo(0, item)
    \/ \E i \in Slots : createListCallback(i)
    \/ \E i \in Slots : addTodoCallback(i)

SpecSocket == Init /\ [][NextSocket]_vars

\* The step is a timer callback that called dispatchMessage.
Dispatched ==
    /\ Len(pending') < Len(pending)
    /\ count(last'.events, "dispatch") = 1

\* The listeners the step's dispatch handed its message to, in order.
reached == [k \in 1 .. Len(last'.delivered) |-> last'.delivered[k].to]

\* The set of the elements of a sequence.
Range(s) == { s[i] : i \in 1 .. Len(s) }

\* C11: a dispatch hands its message only to listeners subscribed when it
\* begins - none removed before and not added again, none not yet added -
\* and a step that is no dispatch hands nothing to anyone.
C11_OnlySubscribedReceive ==
    [][ /\ Dispatched => Range(reached) \subseteq subscribed
        /\ ~Dispatched => /\ mirror' = mirror
                          /\ \A l \in Returning : Len(inbox'[l]) <= Len(inbox[l]) ]_vars

\* L1 was handed the first createList, was removed, and the second createList
\* was dispatched without it.
C11_Witness ==
    /\ "L1" \notin subscribed
    /\ Len(mirror) = 1 /\ Len(todos) = 2
    /\ Ran("createList") /\ count(last.events, "dispatch") = 1
    /\ \A k \in 1 .. Len(last.delivered) : last.delivered[k].to # "L1"

\* C12: a dispatch hands its message to every listener subscribed when it
\* begins exactly once, in the order they subscribed, and all of them get the
\* same kind, payload and sequenceId.
C12_EveryListenerOnceInOrder ==
    [][ Dispatched =>
          /\ \A l \in subscribed :
                Cardinality({ k \in 1 .. Len(reached) : reached[k] = l }) = 1
          /\ \A j, k \in 1 .. Len(reached) :
                j < k => \E a, b \in 1 .. Len(clients) :
                            a < b /\ clients[a] = reached[j] /\ clients[b] = reached[k]
          /\ \A j, k \in 1 .. Len(last'.delivered) :
                last'.delivered[j].msg = last'.delivered[k].msg ]_vars

\* C18: when a listener's handleMessage raises, the listeners subscribed after
\* it are still handed the notification: every dispatch, the one with the
\* raise and the later ones, reaches every entry of clients.
C18_RaiseDoesNotBlockDelivery ==
    [][ Dispatched => \A i \in 1 .. Len(clients) : clients[i] \in Range(reached) ]_vars

\* C20: a dispatch goes to the listeners as they were when it began, whatever
\* the handlers do to the set meanwhile: a listener removed by a handler
\* before its turn is still handed the message, a listener added by a handler
\* is not, and is handed the next one.
C20_DeliversToSetAtStart ==
    [][ Dispatched => reached = clients ]_vars

\* C13: a createList(name) resolved with a success envelope returned the
\* number of lists the store held when its callback began, the store holds
\* one list more, the list at the returned index has that name and no items,
\* and the lists before it are as they were; of two createList calls
\* committing one after the other, in either order of their calls, the second
\* gets the next index.
C13_CreateListAppends ==
    /\ [] ( (Ran("createList") /\ last.outcome = "resolve")
                => /\ last.response = Len(last.before)
                   /\ Len(todos) = Len(last.before) + 1
                   /\ todos[last.response + 1] = [name |-> last.call.name, items |-> <<>>]
                   /\ SubSeq(todos, 1, Len(last.before)) = last.before )
    /\ [][ ( /\ Len(pending') < Len(pending)
             /\ Ran("createList") /\ last.outcome = "resolve"
             /\ last'.call.op = "createList" /\ last'.outcome = "resolve" )
                => last'.response = last.response + 1 ]_vars

\* Of three createList calls, two of them in flight together, the second to
\* commit got index 1 while the third is still pending.
C13_Witness ==
    /\ Ran("createList") /\ last.outcome = "resolve"
    /\ last.response = 1
    /\ Len(todos) = 2
    /\ pending # <<>> /\ pending[1].op = "createList"

\* ------------------------------------------------------------------ getTodoLists and its caller

\* The same code on a heap, so that which object is which shows.  A heap is a
\* sequence of objects and an address an index into it; 0 in an array is an
\* empty slot and -1 the element undefined.  Objects are arrays, lists
\* ({name, items}), todos and the object {} without properties.
array(elems) == [kind |-> "array", elems |-> elems]

\* this.todos laid out on the heap h: the items of a list.
RECURSIVE putTodos(_, _)
putTodos(h, items) ==
    IF items = <<>> THEN [heap |-> h, elems |-> <<>>]
    ELSE LET t == Head(items)
             h1 == IF t \in {Hole, Undefined} THEN h
                   ELSE IF t = EmptyObject THEN Append(h, [kind |-> "object"])
                   ELSE Append(h, [kind |-> "todo", description |-> t.description,
                                   done |-> t.done])
             rest == putTodos(h1, Tail(items))
         IN  [heap |-> rest.heap,
              elems |-> <<IF t = Hole THEN 0
                          ELSE IF t = Undefined THEN -1
                          ELSE Len(h1)>> \o rest.elems]

\* this.todos laid out on the heap h: the lists.
RECURSIVE putLists(_, _)
putLists(h, ls) ==
    IF ls = <<>> THEN [heap |-> h, elems |-> <<>>]
    ELSE LET r == putTodos(h, Head(ls).items)
             h1 == Append(r.heap, array(r.elems))
             h2 == Append(h1, [kind |-> "list", name |-> Head(ls).name, items |-> Len(h1)])
             rest == putLists(h2, Tail(ls))
         IN  [heap |-> rest.heap, elems |-> <<Len(h2)>> \o rest.elems]

\* The store ts as objects: the heap and the address of this.todos.
onHeap(ts) ==
    LET r == putLists(<<>>, ts)
        h == Append(r.heap, array(r.elems))
    IN  [heap |-> h, todos |-> Len(h)]

\* The lists an array of lists at address a holds, as values.
valueAt(h, a) ==
    [i \in 1 .. Len(h[a].elems) |->
        LET l == h[h[a].elems[i]]
        IN  [ name  |-> l.name,
              items |-> [k \in 1 .. Len(h[l.items].elems) |->
                            LET e == h[l.items].elems[k]
                            IN  IF e = 0 THEN Hole
                                ELSE IF e = -1 THEN Undefined
                                ELSE IF h[e].kind = "object" THEN EmptyObject
                                ELSE todo(h[e].description, h[e].done)] ]]

\* todolist.items.map((todo) => {return {...todo}}): a new object per item,
\* {} for the element undefined; an empty slot stays one.
RECURSIVE mapTodos(_, _)
mapTodos(h, elems) ==
    IF elems = <<>> THEN [heap |-> h, elems |-> <<>>]
    ELSE LET e == Head(elems)
             h1 == IF e = 0 THEN h
                   ELSE IF e = -1 \/ h[e].kind = "object"
                   THEN Append(h, [kind |-> "object"])
                   ELSE Append(h, [kind |-> "todo", description |-> h[e].description,
                                   done |-> h[e].done])
             rest == mapTodos(h1, Tail(elems))
         IN  [heap |-> rest.heap, elems |-> <<IF e = 0 THEN 0 ELSE Len(h1)>> \o rest.elems]

\* this.todos.map((todolist) => {return {name: ..., items: ...map(...)}}):
\* a new list object per list, holding a new items array.
RECURSIVE mapLists(_, _)
mapLists(h, elems) ==
    IF elems = <<>> THEN [heap |-> h, elems |-> <<>>]
    ELSE LET l == h[Head(elems)]
             r == mapTodos(h, h[l.items].elems)
             h1 == Append(r.heap, array(r.elems))
             h2 == Append(h1, [kind |-> "list", name |-> l.name, items |-> Len(h1)])
             rest == mapLists(h2, Tail(elems))
         IN  [heap |-> rest.heap, elems |-> <<Len(h2)>> \o rest.elems]

\* The response of getTodoLists on the heap: the heap with the new objects
\* and the address of the array that resolve is given.
getTodoListsOnHeap(h, root) ==
    LET r == mapLists(h, h[root].elems)
        h1 == Append(r.heap, array(r.elems))
    IN  [heap |-> h1, response |-> Len(h1)]

\* The addresses a caller reaches from the array at address a: the array, its
\* lists, their items arrays, their todos.
reachable(h, a) ==
    LET lists == { h[a].elems[i] : i \in 1 .. Len(h[a].elems) }
        arrays == { h[l].items : l \in lists }
        todos_ == UNION { { h[b].elems[k] : k \in 1 .. Len(h[b].elems) } : b \in arrays }
    IN  ({a} \cup lists \cup arrays \cup todos_) \ {0, -1}

\* A caller's write to the object at address a: an array is emptied
\* (length = 0), a list renamed, a todo's done flipped (todo.done = !todo.done,
\* which gives {} the one property done: true).
write(h, a) ==
    CASE h[a].kind = "array"  -> [h EXCEPT ![a].elems = <<>>]
      [] h[a].kind = "list"   -> [h EXCEPT ![a].name = "renamed"]
      [] h[a].kind = "object" -> [h EXCEPT ![a] = [kind |-> "todo",
                                                   description |-> "<undefined>",
                                                   done |-> TRUE]]
      [] OTHER                -> [h EXCEPT ![a].done = ~h[a].done]

\* The addresses of the largest store and its response: per item, list and
\* array one object in each.
Addresses == 1 .. (2 * (MaxItems + MaxCalls) + 6)

\* The caller of the getTodoLists call that resolved last writes into an
\* object of the response, at address a.  No callback ran since, so the store
\* is the one the response was made from.  caller keeps the response as it
\* was received and as it is held after the write, the address written, and
\* the number of calls whose callback is still ahead.
callerModifies(a) ==
    /\ Ran("getTodoLists") /\ last.outcome = "resolve"
    /\ caller = NoCaller
    /\ LET H == onHeap(todos)
           R == getTodoListsOnHeap(H.heap, H.todos)
       IN  /\ a \in reachable(R.heap, R.response)
           /\ todos' = valueAt(write(R.heap, a), H.todos)
           /\ caller' = [ received |-> valueAt(R.heap, R.response),
                          held     |-> valueAt(write(R.heap, a), R.response),
                          wrote    |-> a,
                          ahead    |-> budget + Len(pending) ]
    /\ UNCHANGED <<successRate, clients, sequenceId, pending, budget, last,
                   notified, fulfilled, since, inbox, mirror, subscribed, loop, exec>>

\* Reads, between calls that grow a list, put an item at or past its end or
\* move what a position holds to the front, and a caller that writes into
\* what it read.
InitRead == Built(MaxCalls)

NextRead ==
    \/ getTodoLists
    \/ \E item \in Added : addTodo(0, item)
    \/ \E itemIndex \in WideItemIndexes, newValue \in Edited : editTodo(0, itemIndex, newValue)
    \/ \E sourceIndex \in WideItemIndexes : moveTodo(0, sourceIndex, 0)
    \/ \E i \in Slots : getTodoListsCallback(i)
    \/ \E i \in Slots : addTodoCallback(i)
    \/ \E i \in Slots : editTodoCallback(i)
    \/ \E i \in Slots : moveTodoCallback(i)
    \/ \E a \in Addresses : callerModifies(a)

SpecRead == InitRead /\ [][NextRead]_vars

\* C14: getTodoLists leaves the store and dispatches nothing; resolved, its
\* response equals the store, and so two of them with no callback between
\* return equal responses; a caller writing into the response it got leaves
\* the store, and with it the response of a later getTodoLists, as they were.
C14_ReadCopiesStore ==
    /\ [] ( Ran("getTodoLists")
                => /\ todos = last.before
                   /\ notified = last.notified
                   /\ last.delivered = <<>>
                   /\ last.outcome = "resolve" => last.response = todos )
    /\ [][ caller' # caller => (caller'.received = todos /\ todos' = todos) ]_vars
    /\ [][ ( /\ Len(pending') < Len(pending)
             /\ Ran("getTodoLists") /\ last.outcome = "resolve"
             /\ last'.call.op = "getTodoLists" /\ last'.outcome = "resolve" )
                => last'.response = last.response ]_vars

\* ------------------------------------------------------------------ removeTodo, statement by statement

\* removeTodo with its latency and with its callback taken apart into the
\* index check, the splice and the dispatch, under the event loop that runs
\* them: setTimeout callbacks run one at a time, each to its end, the one
\* whose time comes first before the others.

\* Math.floor(Math.random() * 10), the latency in units of 100 ms.
Latencies == 0 .. MaxLatency

\* A slip in the event loop: a callback may begin while another has not ended.
idleAlways == TRUE

\* The call stack is empty: no callback is running.
idle == stack = <<>>

\* Timer i is the next to fire: the earliest time, and of those the first armed.
earliest(i) ==
    \A j \in 1 .. Len(timers) :
        j # i => \/ timers[i].at < timers[j].at
                 \/ timers[i].at = timers[j].at /\ timers[i].id < timers[j].id

\* The sequence s without its element k.
without(s, k) == SubSeq(s, 1, k - 1) \o SubSeq(s, k + 1, Len(s))

\* Time passes while nothing runs and no timer is due.
tick ==
    /\ idle
    /\ now < MaxTime
    /\ \A j \in 1 .. Len(timers) : timers[j].at > now
    /\ now' = now + 1
    /\ UNCHANGED <<successRate, todos, clients, sequenceId, pending, budget, last,
                   notified, fulfilled, since, inbox, mirror, subscribed,
                   caller, timers, stack, fired, exec>>

\* removeTodo(listIndex, todoIndex), the latency drawn being latency: the
\* timer is armed for now + latency.  Calls are numbered in call order.
removeTodoArms(listIndex, todoIndex, latency) ==
    /\ idle
    /\ budget > 0 /\ Len(timers) < MaxPending
    /\ timers' = Append(timers,
                    [ id   |-> Len(fired) + Len(timers) + 1,
                      at   |-> now + latency,
                      call |-> call("removeTodo", "", listIndex, todoIndex, 0, NoTodo) ])
    /\ budget' = budget - 1
    /\ UNCHANGED <<successRate, todos, clients, sequenceId, pending, last,
                   notified, fulfilled, since, inbox, mirror, subscribed,
                   caller, now, stack, fired, exec>>

\* listIndex < 0 || listIndex >= this.todos.length || todoIndex < 0
\*     || todoIndex >= this.todos[listIndex].items.length
removeTodoBad(ts, listIndex, todoIndex) ==
    \/ listIndex < 0
    \/ listIndex >= Len(ts)
    \/ todoIndex < 0
    \/ todoIndex >= Len(listAt(ts, listIndex).items)

\* Timer i fires and its callback begins: the coin flip, and when it passes
\* the index check (reject does not leave the block).  When it fails the else
\* branch rejects and the callback has ended.
removeTodoBegins(i) ==
    /\ idle
    /\ i \in 1 .. Len(timers)
    /\ timers[i].at <= now
    /\ earliest(i)
    /\ timers' = without(timers, i)
    /\ fired' = Append(fired, [id |-> timers[i].id, at |-> timers[i].at])
    /\ \E rnd \in RandomDraws :
        LET c == timers[i].call
        IN  IF isSuccess(rnd, successRate)
            THEN /\ stack' = Append(stack,
                        [ id |-> timers[i].id, call |-> c, pc |-> "splice",
                          checked |-> todos, spliced |-> todos, notified |-> notified,
                          events |-> IF removeTodoBad(todos, c.listIndex, c.itemIndex)
                                     THEN <<"reject400">> ELSE <<>> ])
                 /\ last' = last
            ELSE /\ stack' = stack
                 /\ last' = observed(c, FALSE, todos, notified,
                                     coinFailed(todos, sequenceId))
    /\ UNCHANGED <<successRate, todos, clients, sequenceId, pending, budget,
                   notified, fulfilled, since, inbox, mirror, subscribed,
                   caller, now, exec>>

\* this.todos[listIndex].items.splice(todoIndex, 1) of the callback in frame
\* k; with no list at listIndex the TypeError goes to the catch, which
\* rejects, and the callback has ended.
removeTodoSplices(k) ==
    /\ k \in 1 .. Len(stack)
    /\ stack[k].pc = "splice"
    /\ LET f == stack[k]
           c == f.call
       IN  IF hasList(todos, c.listIndex)
           THEN /\ todos' = withItems(todos, c.listIndex,
                                splice(listAt(todos, c.listIndex).items,
                                       c.itemIndex, 1, <<>>).array)
                /\ stack' = [stack EXCEPT ![k].pc = "dispatch",
                                          ![k].spliced = todos',
                                          ![k].events = @ \o <<"mutate">>]
                /\ last' = last
           ELSE /\ todos' = todos
                /\ stack' = without(stack, k)
                /\ last' = observed(c, TRUE, f.checked, f.notified,
                                    ran(todos, sequenceId, <<>>, NoResponse,
                                        f.events \o <<"catch", "reject500">>))
    /\ UNCHANGED <<successRate, clients, sequenceId, pending, budget,
                   notified, fulfilled, since, inbox, mirror, subscribed,
                   caller, now, timers, fired, exec>>

\* fakeSocket.dispatchMessage({type: "removeTodo", ...}) of the callback in
\* frame k, then resolve, or the catch when a handler raised; the callback
\* has ended.
removeTodoDispatches(k) ==
    /\ k \in 1 .. Len(stack)
    /\ stack[k].pc = "dispatch"
    /\ LET f == stack[k]
           c == f.call
           d == dispatchMessage(clients, sequenceId,
                    [type |-> "removeTodo",
                     message |-> [listIndex |-> c.listIndex, itemIndex |-> c.itemIndex]])
           r == ran(todos, d.sequenceId, d.delivered, TRUE,
                    f.events \o <<"dispatch">> \o afterDispatch(d))
           s == handledAll([clients |-> clients, subscribed |-> subscribed,
                            since |-> since, inbox |-> inbox],
                           r.delivered, notified + 1)
       IN  /\ sequenceId' = r.sequenceId
           /\ last' = observed(c, TRUE, f.checked, f.notified, r)
           /\ notified' = notified + 1
           /\ fulfilled' = fulfilled + (IF settled(r.events) = "resolve" THEN 1 ELSE 0)
           /\ clients' = s.clients
           /\ subscribed' = s.subscribed
           /\ since' = s.since
           /\ inbox' = s.inbox
           /\ mirror' = replayAll(mirror, handedTo(r.delivered, "L1"))
           /\ stack' = without(stack, k)
    /\ UNCHANGED <<successRate, todos, pending, budget,
                   caller, now, timers, fired, exec>>

\* A built store, and the callers' calls all ahead.
InitSteps == Built(MaxCalls)

NextSteps ==
    \/ tick
    \/ \E listIndex \in ListIndexes, todoIndex \in ItemIndexes, latency \in Latencies :
            removeTodoArms(listIndex, todoIndex, latency)
    \/ \E i \in Slots : removeTodoBegins(i)
    \/ \E k \in Slots : removeTodoSplices(k)
    \/ \E k \in Slots : removeTodoDispatches(k)

SpecSteps == InitSteps /\ [][NextSteps]_vars

\* C15: with several calls in flight, a callback's index check, splice and
\* dispatch run with nothing of another call between them: at most one
\* callback has begun and not ended, the store it splices is the store it
\* checked, the store it dispatches for is the store it spliced, with no
\* dispatch of another call since it began; what it has done when it ends is
\* what the callback does as a whole on the store it began with; and the
\* callbacks run in the order of their timers' times (then of the calls),
\* whatever the order of the calls.
C15_CallbackIsOneUnit ==
    /\ [] ( /\ Len(stack) <= 1
            /\ \A k \in 1 .. Len(stack) :
                /\ stack[k].notified = notified
                /\ stack[k].pc = "splice" => stack[k].checked = todos
                /\ stack[k].pc = "dispatch" => stack[k].spliced = todos
            /\ \A j, k \in 1 .. Len(fired) :
                j < k => \/ fired[j].at < fired[k].at
                         \/ fired[j].at = fired[k].at /\ fired[j].id < fired[k].id )
    /\ [][ \A k \in 1 .. Len(stack) :
            (Len(stack') < Len(stack) /\ stack' = without(stack, k))
                => LET f == stack[k]
                       r == removeTodoRun(f.checked, clients, sequenceId,
                                          f.call.listIndex, f.call.itemIndex, TRUE)
                   IN  /\ todos' = r.todos
                       /\ last' = observed(f.call, TRUE, f.checked, f.notified, r) ]_vars

\* Of two removeTodo calls in flight together the second made committed
\* first, and both removed their item.
C15_Witness ==
    /\ Len(fired) = 2 /\ fired[1].id = 2 /\ fired[2].id = 1
    /\ stack = <<>>
    /\ Ran("removeTodo") /\ last.outcome = "resolve"
    /\ fulfilled - Len(todos[1].items) = 5

\* ------------------------------------------------------------------ RandomActionExecutor

\* The periods callers pass to launch.
Periods == -1 .. MaxPeriod

\* launch(minPeriod, maxPeriod) on the executor ex: the test reads the
\* fields, this.minPeriod and this.maxPeriod, as they are before the call,
\* not the arguments; when it passes, running is set and the arguments are
\* stored.  Nothing in launch calls run(), and nothing else does.
launchRun(ex, minPeriod, maxPeriod) ==
    IF ex.minPeriod < 0 \/ ex.maxPeriod < 0 \/ ex.minPeriod >= ex.maxPeriod
    THEN [executor |-> ex, threw |-> TRUE]
    ELSE [executor |-> [ex EXCEPT !.running = TRUE,
                                  !.minPeriod = minPeriod,
                                  !.maxPeriod = maxPeriod],
          threw |-> FALSE]

launch(minPeriod, maxPeriod) ==
    /\ executor' = launchRun(executor, minPeriod, maxPeriod).executor
    /\ launched' = [ minPeriod |-> minPeriod, maxPeriod |-> maxPeriod,
                     threw |-> launchRun(executor, minPeriod, maxPeriod).threw,
                     before |-> executor ]
    /\ UNCHANGED <<successRate, todos, clients, sequenceId, pending, budget, last,
                   notified, fulfilled, since, inbox, mirror, subscribed,
                   caller, loop>>

\* stop(): this.running = false
stop ==
    /\ executor' = [executor EXCEPT !.running = FALSE]
    /\ UNCHANGED <<successRate, todos, clients, sequenceId, pending, budget, last,
                   notified, fulfilled, since, inbox, mirror, subscribed,
                   caller, loop, launched>>

NextExec ==
    \/ \E minPeriod \in Periods, maxPeriod \in Periods : launch(minPeriod, maxPeriod)
    \/ stop

SpecExec == Init /\ [][NextExec]_vars

\* C16: launch(minPeriod, maxPeriod) throws, leaving running and the periods
\* as they were, exactly when minPeriod < 0, maxPeriod < 0 or
\* minPeriod >= maxPeriod; otherwise it sets running and stores the two periods.
C16_LaunchValidatesArguments ==
    [][ launched' # launched =>
          LET l == launched'
              invalid == l.minPeriod < 0 \/ l.maxPeriod < 0 \/ l.minPeriod >= l.maxPeriod
          IN  /\ l.threw <=> invalid
              /\ l.threw => executor' = executor
              /\ ~l.threw => /\ executor'.running
                             /\ executor'.minPeriod = l.minPeriod
                             /\ executor'.maxPeriod = l.maxPeriod ]_vars

\* C17: from a successful launch until stop the executor is between two
\* actions: the timer of run() is armed, so that another action follows.
C17_RunningExecutorKeepsActing ==
    executor.running => executor.timer

\* ------------------------------------------------------------------ one call on a store of two lists

\* The store after createList("work"), createList("home"), addTodo(1, Z) and
\* n addTodo(0, item) calls.
builtTwo(n) ==
    <<[name |-> "work", items |-> lettered(n)],
      [name |-> "home", items |-> <<todo("Z", TRUE)>>]>>

\* L1 subscribes and the calls that build the store are made, each resolved
\* before the next; then either nothing more (holed = FALSE), or an
\* editTodo(0, n + 1, item) whose callback ran: one position past the end of
\* the first list, which leaves an empty slot at position n.  The callers have
\* one call left to make.
InitFrame ==
    \E n \in 1 .. MaxItems, holed \in BOOLEAN, newValue \in Edited :
        LET r == IF holed
                 THEN editTodoRun(builtTwo(n), <<"L1">>, 0, 0, n + 1, newValue, TRUE)
                 ELSE addTodoRun(builtTwo(n - 1), <<"L1">>, 0, 0, lettered(n)[n], TRUE)
            h == IF holed THEN 1 ELSE 0
        IN  /\ successRate \in SuccessRates
            /\ todos = r.todos
            /\ clients = <<"L1">>
            /\ sequenceId = 0
            /\ pending = <<>>
            /\ budget = 1
            /\ last = IF holed
                      THEN observed(call("editTodo", "", 0, n + 1, 0, newValue), TRUE,
                                    builtTwo(n), n + 3, r)
                      ELSE observed(call("addTodo", "", 0, 0, 0, lettered(n)[n]), TRUE,
                                    builtTwo(n - 1), n + 2, r)
            /\ notified = n + 3 + h
            /\ fulfilled = n + 3
            /\ since = [l \in Returning |-> 0]
            /\ inbox = [l \in Returning |-> [k \in 1 .. (n + 3 + h) |-> r.sequenceId]]
            /\ mirror = builtTwo(n)
            /\ subscribed = {"L1"}
            /\ Apart

SpecFrame == InitFrame /\ [][NextOne]_vars

\* The two sequences hold the same elements, each as often.
sameElements(a, b) ==
    /\ Len(a) = Len(b)
    /\ \A x \in Range(a) \cup Range(b) :
            Cardinality({ k \in 1 .. Len(a) : a[k] = x })
                = Cardinality({ k \in 1 .. Len(b) : b[k] = x })

\* C19: a resolved addTodo, removeTodo, moveTodo or editTodo whose list index
\* and item or source index were valid (the destIndex of moveTodo being any
\* number) leaves the number of lists, every name and the items of every
\* other list as they were, and changes the length of its list by +1, -1, 0
\* and 0; moveTodo leaves the same items, each as often.
C19_ItemOperationsFrame ==
    LET c == last.call
        b == last.before
    IN  (/\ c.op \in {"addTodo", "removeTodo", "moveTodo", "editTodo"}
         /\ last.outcome = "resolve"
         /\ ~InvalidIndex(c, b))
            => /\ Len(todos) = Len(b)
               /\ \A i \in 1 .. Len(b) :
                    /\ todos[i].name = b[i].name
                    /\ i # c.listIndex + 1 => todos[i].items = b[i].items
               /\ Len(todos[c.listIndex + 1].items)
                    = Len(b[c.listIndex + 1].items)
                        + (CASE c.op = "addTodo" -> 1
                             [] c.op = "removeTodo" -> -1
                             [] OTHER -> 0)
               /\ c.op = "moveTodo"
                    => sameElements(todos[c.listIndex + 1].items, b[c.listIndex + 1].items)

====
